---- MODULE Spec2Model ----
(***************************************************************************)
(* A model of graph4nlp's initial embedding construction                   *)
(* (graph4nlp/pytorch/modules/graph_construction/embedding_construction.py)*)
(* and of the CoNLL example dataset                                        *)
(* (examples/pytorch/name_entity_recognition/conll.py).                    *)
(*                                                                         *)
(* Tensors are modelled as sequences (1-based) of rows; a feature vector   *)
(* is a symbolic term (a record with an "op" field) that records how the   *)
(* framework computed it, so that two rows are equal exactly when they     *)
(* were computed from the same inputs by the same operations.              *)
(***************************************************************************)
EXTENDS Integers, Sequences, FiniteSets, TLC

VARIABLES
    rnn_call,   \* arguments of the last RNNEmbedding(...) call
    rnn,        \* outcome of RNNEmbedding.__init__ (object or exception)
    rnn_fwd,    \* outcome of the last RNNEmbedding.forward call
    ec_call,    \* arguments of the last EmbeddingConstruction(...) call
    ec,         \* outcome of EmbeddingConstruction.__init__
    ec_fwd,     \* outcome of the last EmbeddingConstruction.forward call
    conll,      \* load state of the conll.py module
    data_items, \* the data items handed to ConllDataset.build_topology
    conll_run   \* outcome of the script that loads conll.py and builds topology

vars == <<rnn_call, rnn, rnn_fwd, ec_call, ec, ec_fwd, conll, data_items, conll_run>>

rnn_vars == <<rnn_call, rnn, rnn_fwd>>
ec_vars == <<ec_call, ec, ec_fwd>>
conll_vars == <<conll, data_items, conll_run>>

----------------------------------------------------------------------------
(* Bounds *)

MaxHidden == 4      \* hidden_size ranges over 1..MaxHidden
MaxBatch == 3       \* rows of a batch handed to RNNEmbedding.forward
MaxLen == 2         \* length of a (padded) sequence handed to RNNEmbedding.forward
MaxTotalItems == 3  \* N, the number of items of a batched graph
MaxDataItems == 3   \* number of data items handed to build_topology

----------------------------------------------------------------------------
(* Generic helpers *)

Range(s) == {s[i] : i \in 1..Len(s)}

RECURSIVE SeqSum(_)
SeqSum(s) == IF s = <<>> THEN 0 ELSE s[1] + SeqSum(Tail(s))

SeqMax(s) == CHOOSE m \in Range(s) : \A v \in Range(s) : v <= m

\* all sequences over S of length lo..hi
SeqsOf(S, lo, hi) == UNION {[1..n -> S] : n \in lo..hi}

\* the permutations of 1..n, as sequences
Perms(n) == {p \in [1..n -> 1..n] : \A i, j \in 1..n : i # j => p[i] # p[j]}

----------------------------------------------------------------------------
(* Outcomes of a call: a normal return or a raised exception *)

None == [class |-> "None"]

Raised(exc, msg) == [status |-> "raised", exc |-> exc, msg |-> msg, obj |-> None]

Returned(obj) == [status |-> "ok", exc |-> "none", msg |-> "", obj |-> obj]

NotCalled == [status |-> "not_called", exc |-> "none", msg |-> "", obj |-> None]

----------------------------------------------------------------------------
(* torch primitives used by the module *)

\* torch.zeros(...): one all-zero feature row
Zeros == [op |-> "zeros"]

\* torch.sort(x_len, 0, descending=True): the sort is not stable, so any
\* index permutation that orders the lengths descending may be returned.
SortDescending(x_len) ==
    {p \in Perms(Len(x_len)) :
        \A i \in 1..(Len(x_len) - 1) : x_len[p[i]] >= x_len[p[i + 1]]}

\* torch.sort(indx, 0) of a permutation: the (unique) inverse permutation
InverseIndx(indx) ==
    [j \in 1..Len(indx) |-> CHOOSE i \in 1..Len(indx) : indx[i] = j]

\* x[indx]: row gather
Gather(x, indx) == [i \in 1..Len(indx) |-> x[indx[i]]]

\* output of a (bi)directional nn.LSTM / nn.GRU at step t of a sequence of
\* length n: the forward direction has read steps 1..t, the backward
\* direction steps t..n
HiddenAt(self, row, n, t) ==
    [op |-> self.rnn_type,
     fwd |-> SubSeq(row, 1, t),
     bwd |-> IF self.num_directions = 2 THEN SubSeq(row, t, n) ELSE <<>>]

\* final hidden state (h_n) of every direction for a sequence of length n,
\* concatenated along the feature dimension
HiddenLast(self, row, n) ==
    [op |-> self.rnn_type,
     fwd |-> SubSeq(row, 1, n),
     bwd |-> IF self.num_directions = 2 THEN SubSeq(row, 1, n) ELSE <<>>]

\* pad_packed_sequence(model(pack_padded_sequence(x, lens))): each row's
\* outputs for its first lens[b] steps, zero-padded to the longest row
PackedOutputsPadded(self, x, lens) ==
    [b \in 1..Len(x) |->
        [t \in 1..SeqMax(lens) |->
            IF t <= lens[b] THEN HiddenAt(self, x[b], lens[b], t) ELSE Zeros]]

PackedLast(self, x, lens) ==
    [b \in 1..Len(x) |-> HiddenLast(self, x[b], lens[b])]

----------------------------------------------------------------------------
(* class RNNEmbedding *)

\* RNNEmbedding.__init__ without the halving of hidden_size per direction
RNNEmbedding_init_NoHalving(hidden_size, bidirectional, rnn_type) ==
    IF rnn_type \notin {"lstm", "gru"}
    THEN Raised("RuntimeError", "rnn_type is expected to be lstm or gru")
    ELSE IF bidirectional /\ hidden_size % 2 # 0
    THEN Raised("RuntimeError", "hidden_size is expected to be even in the bidirectional mode!")
    ELSE Returned([class |-> "RNNEmbedding",
                   rnn_type |-> rnn_type,
                   hidden_size |-> hidden_size,
                   num_directions |-> IF bidirectional THEN 2 ELSE 1])

RNNEmbedding_init(hidden_size, bidirectional, rnn_type) ==
    IF rnn_type \notin {"lstm", "gru"}
    THEN Raised("RuntimeError", "rnn_type is expected to be lstm or gru")
    ELSE IF bidirectional /\ hidden_size % 2 # 0
    THEN Raised("RuntimeError", "hidden_size is expected to be even in the bidirectional mode!")
    ELSE Returned([class |-> "RNNEmbedding",
                   rnn_type |-> rnn_type,
                   hidden_size |-> IF bidirectional THEN hidden_size \div 2 ELSE hidden_size,
                   num_directions |-> IF bidirectional THEN 2 ELSE 1])

\* RNNEmbedding.forward(x, x_len), with indx the permutation torch.sort
\* returned.  The bidirectional GRU branch reads the undefined name
\* query_lengths.
RNNEmbedding_forward(self, x, x_len, indx) ==
    LET sorted_x_len == Gather(x_len, indx)
        sorted_x == Gather(x, indx)
        hh == PackedOutputsPadded(self, sorted_x, sorted_x_len)
        packed_h_t == PackedLast(self, sorted_x, sorted_x_len)
        inverse_indx == InverseIndx(indx)
    IN  IF self.rnn_type # "lstm" /\ self.num_directions = 2
        THEN Raised("NameError", "name 'query_lengths' is not defined")
        ELSE Returned(<<Gather(hh, inverse_indx), Gather(packed_h_t, inverse_indx)>>)

----------------------------------------------------------------------------
(* classes WordEmbedding, BertEmbedding, MeanEmbedding *)

\* WordEmbedding.forward(input_tensor): nn.Embedding lookup of every word
\* index, shape (N, L) -> (N, L, D)
WordEmbedding_forward(input_tensor) ==
    Returned([k \in 1..Len(input_tensor) |->
                [l \in 1..Len(input_tensor[k]) |->
                    [op |-> "w2v", w |-> input_tensor[k][l]]]])

\* BertEmbedding.forward(self) takes no input and raises NotImplementedError;
\* nn.Module.__call__(input_tensor) passes one positional argument to it, so
\* the call fails binding the arguments.
BertEmbedding_forward(input_tensor) ==
    Raised("TypeError", "forward() takes 1 positional argument but 2 were given")

\* MeanEmbedding.forward(emb, len_): sum over the whole (padded) word
\* dimension, divided by the item's length
MeanEmbedding_forward(emb, len_) ==
    [k \in 1..Len(emb) |-> [op |-> "mean", sum |-> emb[k], len |-> len_[k]]]

\* word_emb_layer(input_tensor) for one layer of self.word_emb_layers
WordEmbLayer_call(layer, input_tensor) ==
    IF layer.class = "WordEmbedding"
    THEN WordEmbedding_forward(input_tensor)
    ELSE BertEmbedding_forward(input_tensor)

\* torch.cat(feat, dim=-1) of a non-empty list of (N, L, D_i) tensors
CatLastDim(feat) ==
    IF Len(feat) = 1
    THEN feat[1]
    ELSE [k \in 1..Len(feat[1]) |->
            [l \in 1..Len(feat[1][k]) |->
                [op |-> "cat", parts |-> [i \in 1..Len(feat) |-> feat[i][k][l]]]]]

----------------------------------------------------------------------------
(* class EmbeddingConstruction *)

\* a word_emb_type argument: a str, or a list of str
StrArg(s) == [isstr |-> TRUE, str |-> s, list |-> <<>>]
ListArg(l) == [isstr |-> FALSE, str |-> "", list |-> l]

\* __init__, lines 89-101: the word embedding layers
WordEmbLayers(word_emb_type) ==
    LET types == IF word_emb_type.isstr THEN <<word_emb_type.str>> ELSE word_emb_type.list
    IN  (IF "w2v" \in Range(types) THEN <<[class |-> "WordEmbedding"]>> ELSE <<>>)
        \o (IF "bert" \in Range(types) THEN <<[class |-> "BertEmbedding"]>> ELSE <<>>)

\* __init__, lines 103-130, with the bidirectional flags of the lstm and
\* bilstm branches exchanged
NodeEdgeEmbLayer_SwappedDirection(node_edge_emb_strategy, hidden_size) ==
    CASE node_edge_emb_strategy = "mean" -> Returned([class |-> "MeanEmbedding"])
      [] node_edge_emb_strategy = "lstm" -> RNNEmbedding_init(hidden_size, TRUE, "lstm")
      [] node_edge_emb_strategy = "bilstm" -> RNNEmbedding_init(hidden_size, FALSE, "lstm")
      [] node_edge_emb_strategy = "gru" -> RNNEmbedding_init(hidden_size, FALSE, "gru")
      [] node_edge_emb_strategy = "bigru" -> RNNEmbedding_init(hidden_size, TRUE, "gru")
      [] OTHER -> Raised("RuntimeError", "Unknown node_edge_emb_strategy")

\* __init__, lines 103-130: the node/edge embedding layer
NodeEdgeEmbLayer(node_edge_emb_strategy, hidden_size) ==
    CASE node_edge_emb_strategy = "mean" -> Returned([class |-> "MeanEmbedding"])
      [] node_edge_emb_strategy = "lstm" -> RNNEmbedding_init(hidden_size, FALSE, "lstm")
      [] node_edge_emb_strategy = "bilstm" -> RNNEmbedding_init(hidden_size, TRUE, "lstm")
      [] node_edge_emb_strategy = "gru" -> RNNEmbedding_init(hidden_size, FALSE, "gru")
      [] node_edge_emb_strategy = "bigru" -> RNNEmbedding_init(hidden_size, TRUE, "gru")
      [] OTHER -> Raised("RuntimeError", "Unknown node_edge_emb_strategy")

\* __init__, lines 132-163, with the gru branch building an LSTM
SeqInfoEncodeLayer_GruAsLstm(seq_info_encode_strategy, hidden_size) ==
    CASE seq_info_encode_strategy = "none" -> Returned(None)
      [] seq_info_encode_strategy = "lstm" -> RNNEmbedding_init(hidden_size, FALSE, "lstm")
      [] seq_info_encode_strategy = "bilstm" -> RNNEmbedding_init(hidden_size, TRUE, "lstm")
      [] seq_info_encode_strategy = "gru" -> RNNEmbedding_init(hidden_size, FALSE, "lstm")
      [] seq_info_encode_strategy = "bigru" -> RNNEmbedding_init(hidden_size, TRUE, "gru")
      [] OTHER -> Raised("RuntimeError", "Unknown seq_info_encode_strategy")

\* __init__, lines 132-163: the sequence information encoding layer
SeqInfoEncodeLayer(seq_info_encode_strategy, hidden_size) ==
    CASE seq_info_encode_strategy = "none" -> Returned(None)
      [] seq_info_encode_strategy = "lstm" -> RNNEmbedding_init(hidden_size, FALSE, "lstm")
      [] seq_info_encode_strategy = "bilstm" -> RNNEmbedding_init(hidden_size, TRUE, "lstm")
      [] seq_info_encode_strategy = "gru" -> RNNEmbedding_init(hidden_size, FALSE, "gru")
      [] seq_info_encode_strategy = "bigru" -> RNNEmbedding_init(hidden_size, TRUE, "gru")
      [] OTHER -> Raised("RuntimeError", "Unknown seq_info_encode_strategy")

EmbeddingConstruction_init(word_emb_type, node_edge_emb_strategy, seq_info_encode_strategy, hidden_size) ==
    LET node_edge == NodeEdgeEmbLayer(node_edge_emb_strategy, hidden_size)
        seq_info == SeqInfoEncodeLayer(seq_info_encode_strategy, hidden_size)
    IN  IF node_edge.status = "raised" THEN node_edge
        ELSE IF seq_info.status = "raised" THEN seq_info
        ELSE Returned([class |-> "EmbeddingConstruction",
                       node_edge_emb_strategy |-> node_edge_emb_strategy,
                       seq_info_encode_strategy |-> seq_info_encode_strategy,
                       word_emb_layers |-> WordEmbLayers(word_emb_type),
                       node_edge_emb_layer |-> node_edge.obj,
                       seq_info_encode_layer |-> seq_info.obj])

\* forward, lines 185-189: every word embedding layer applied to
\* input_tensor, in order; the first layer that raises ends the call
RECURSIVE WordEmbFeats(_, _)
WordEmbFeats(layers, input_tensor) ==
    IF layers = <<>> THEN Returned(<<>>)
    ELSE LET first == WordEmbLayer_call(layers[1], input_tensor)
             rest == WordEmbFeats(Tail(layers), input_tensor)
         IN  IF first.status = "raised" THEN first
             ELSE IF rest.status = "raised" THEN rest
             ELSE Returned(<<first.obj>> \o rest.obj)

\* forward, lines 193-195: the node/edge layer; an RNN layer returns a pair
\* of which forward keeps the last element
NodeEdgeFeat(self, feat, item_size, indx) ==
    IF self.node_edge_emb_layer.class = "MeanEmbedding"
    THEN Returned(MeanEmbedding_forward(feat, item_size))
    ELSE LET r == RNNEmbedding_forward(self.node_edge_emb_layer, feat, item_size, indx)
         IN  IF r.status = "raised" THEN r ELSE Returned(r.obj[2])

\* partial sums of num_items: the start index (0-based) of graph i
StartIdx(num_items, i) == SeqSum(SubSeq(num_items, 1, i - 1))

\* forward, lines 200-213: unbatching and zero-padding to max_num_items
Unbatch(feat, num_items) ==
    [i \in 1..Len(num_items) |->
        [t \in 1..SeqMax(num_items) |->
            IF t <= num_items[i] THEN feat[StartIdx(num_items, i) + t] ELSE Zeros]]

\* forward, lines 218-223: truncation of every graph to its own items and
\* concatenation
RECURSIVE Rebatch(_, _)
Rebatch(new_feat, num_items) ==
    IF num_items = <<>> THEN <<>>
    ELSE SubSeq(new_feat[1], 1, num_items[1]) \o Rebatch(Tail(new_feat), Tail(num_items))

\* the outcome of forward, with whether the call read num_items
FwdResult(res, read) == [res |-> res, read_num_items |-> read]

\* EmbeddingConstruction.forward(input_tensor, item_size, num_items); indx1
\* and indx2 are the permutations torch.sort returns inside the node/edge
\* layer and the sequence layer
EmbeddingConstruction_forward(self, input_tensor, item_size, num_items, indx1, indx2) ==
    LET words == WordEmbFeats(self.word_emb_layers, input_tensor)
    IN  IF words.status = "raised" THEN FwdResult(words, FALSE)
        ELSE
        LET feat == NodeEdgeFeat(self, CatLastDim(words.obj), item_size, indx1)
        IN  IF feat.status = "raised" THEN FwdResult(feat, FALSE)
            ELSE IF self.seq_info_encode_layer = None THEN FwdResult(feat, FALSE)
            ELSE
            LET r == RNNEmbedding_forward(self.seq_info_encode_layer,
                                          Unbatch(feat.obj, num_items), num_items, indx2)
            IN  IF r.status = "raised" THEN FwdResult(r, TRUE)
                ELSE FwdResult(Returned(Rebatch(r.obj[1], num_items)), TRUE)

----------------------------------------------------------------------------
(* examples/pytorch/name_entity_recognition/conll.py *)

\* Python compiles a module as a whole before running any of it.  conll.py
\* is not valid Python: line 76 ends an assignment with a colon (as do lines
\* 91, 157 and 193), and the elif of line 141 has no matching if.  Importing
\* it raises SyntaxError, so class ConllDataset is never defined.
Conll_import == Raised("SyntaxError", "invalid syntax (conll.py, line 76)")

----------------------------------------------------------------------------
(* Inputs *)

HiddenSizes == 1..MaxHidden

RnnTypes == {"lstm", "gru", "rnn"}

WordEmbTypes == {StrArg("w2v"), StrArg("bert"), ListArg(<<"w2v", "bert">>)}

NodeEdgeEmbStrategies == {"mean", "lstm", "gru", "bilstm", "bigru", "cnn"}

SeqInfoEncodeStrategies == {"none", "lstm", "gru", "bilstm", "bigru", "cnn"}

\* an item: its row of input_tensor (word indices, 0 the padding index) and
\* its entry of item_size
ItemKinds == {[words |-> <<3, 0>>, size |-> 1], [words |-> <<1, 2>>, size |-> 2]}

\* the num_items vectors of a batched graph of n items: every graph has at
\* least one item
NumItemsOf(n) == {s \in SeqsOf(1..n, 1, n) : SeqSum(s) = n}

\* the batch handed to RNNEmbedding.forward on its own: row b, step t holds
\* a feature vector of its own
InputX(B) == [b \in 1..B |-> [t \in 1..MaxLen |-> [op |-> "x", b |-> b, t |-> t]]]

Texts == {"EU rejects German call", "Peter Blackburn", "BRUSSELS 1996-08-22"}

GraphTypes == {"dependency", "line", "constituency", "node_emb"}

----------------------------------------------------------------------------
(* State machine *)

NoRnnCall == [hidden_size |-> 0, bidirectional |-> FALSE, rnn_type |-> ""]
NoRnnFwd == [called |-> FALSE, x |-> <<>>, x_len |-> <<>>, res |-> NotCalled]
NoEcCall == [word_emb_type |-> StrArg(""), node_edge_emb_strategy |-> "",
             seq_info_encode_strategy |-> "", hidden_size |-> 0]
NoEcFwd == [called |-> FALSE, input_tensor |-> <<>>, item_size |-> <<>>,
            num_items |-> <<>>, out |-> FwdResult(NotCalled, FALSE)]

RnnIdle == rnn_call = NoRnnCall /\ rnn = NotCalled /\ rnn_fwd = NoRnnFwd
EcIdle == ec_call = NoEcCall /\ ec = NotCalled /\ ec_fwd = NoEcFwd
ConllIdle == conll = "not_imported" /\ data_items = <<>>
             /\ conll_run = [graph_type |-> "", res |-> NotCalled]

\* RNNEmbedding(input_size, hidden_size, bidirectional=..., rnn_type=...)
RNNConstruct ==
    /\ rnn.status = "not_called"
    /\ \E hidden_size \in HiddenSizes, bidirectional \in BOOLEAN, rnn_type \in RnnTypes :
        /\ rnn_call' = [hidden_size |-> hidden_size, bidirectional |-> bidirectional,
                        rnn_type |-> rnn_type]
        /\ rnn' = RNNEmbedding_init(hidden_size, bidirectional, rnn_type)
    /\ UNCHANGED <<rnn_fwd, ec_vars, conll_vars>>

\* rnn(x, x_len) on a constructed RNNEmbedding
RNNForward ==
    /\ rnn.status = "ok"
    /\ ~rnn_fwd.called
    /\ \E x_len \in SeqsOf(1..MaxLen, 1, MaxBatch) :
        \E indx \in SortDescending(x_len) :
            rnn_fwd' = [called |-> TRUE, x |-> InputX(Len(x_len)), x_len |-> x_len,
                        res |-> RNNEmbedding_forward(rnn.obj, InputX(Len(x_len)), x_len, indx)]
    /\ UNCHANGED <<rnn_call, rnn, ec_vars, conll_vars>>

\* EmbeddingConstruction(word_vocab, word_emb_type, node_edge_emb_strategy,
\*                       seq_info_encode_strategy, hidden_size=...)
ECConstruct ==
    /\ ec.status = "not_called"
    /\ \E word_emb_type \in WordEmbTypes,
          node_edge_emb_strategy \in NodeEdgeEmbStrategies,
          seq_info_encode_strategy \in SeqInfoEncodeStrategies,
          hidden_size \in HiddenSizes :
        /\ ec_call' = [word_emb_type |-> word_emb_type,
                       node_edge_emb_strategy |-> node_edge_emb_strategy,
                       seq_info_encode_strategy |-> seq_info_encode_strategy,
                       hidden_size |-> hidden_size]
        /\ ec' = EmbeddingConstruction_init(word_emb_type, node_edge_emb_strategy,
                                            seq_info_encode_strategy, hidden_size)
    /\ UNCHANGED <<ec_fwd, rnn_vars, conll_vars>>

\* ec(input_tensor, item_size, num_items) on a constructed
\* EmbeddingConstruction; torch.sort runs only inside an RNN layer
ECForward ==
    /\ ec.status = "ok"
    /\ ~ec_fwd.called
    /\ \E n \in 1..MaxTotalItems :
        \E items \in [1..n -> ItemKinds], num_items \in NumItemsOf(n) :
            LET input_tensor == [k \in 1..n |-> items[k].words]
                item_size == [k \in 1..n |-> items[k].size]
            IN  \E indx1 \in (IF ec.obj.node_edge_emb_layer.class = "RNNEmbedding"
                              THEN SortDescending(item_size) ELSE {<<>>}),
                   indx2 \in (IF ec.obj.seq_info_encode_layer # None
                              THEN SortDescending(num_items) ELSE {<<>>}) :
                    ec_fwd' = [called |-> TRUE, input_tensor |-> input_tensor,
                               item_size |-> item_size, num_items |-> num_items,
                               out |-> EmbeddingConstruction_forward(ec.obj, input_tensor,
                                            item_size, num_items, indx1, indx2)]
    /\ UNCHANGED <<ec_call, ec, rnn_vars, conll_vars>>

\* a script that imports conll.py in order to build the topology of its
\* data items: the import raises and nothing of the module runs
ConllBuildTopology ==
    /\ conll = "not_imported"
    /\ conll' = "import_failed"
    /\ conll_run' = [conll_run EXCEPT !.res = Conll_import]
    /\ UNCHANGED <<data_items, rnn_vars, ec_vars>>

InitRNN == RnnIdle /\ EcIdle /\ ConllIdle
NextRNN == RNNConstruct \/ RNNForward
SpecRNN == InitRNN /\ [][NextRNN]_vars

InitEC == RnnIdle /\ EcIdle /\ ConllIdle
NextEC == ECConstruct \/ ECForward
SpecEC == InitEC /\ [][NextEC]_vars

InitConll ==
    /\ RnnIdle /\ EcIdle
    /\ conll = "not_imported"
    /\ data_items \in SeqsOf([input_text : Texts, graph : {"unbound"}], 0, MaxDataItems)
    /\ conll_run \in [graph_type : GraphTypes, res : {NotCalled}]
NextConll == ConllBuildTopology
SpecConll == InitConll /\ [][NextConll]_vars

Init == InitEC
Next == NextEC
Spec == SpecEC

----------------------------------------------------------------------------
(* Claims about RNNEmbedding, checked under SpecRNN *)

\* what a strategy or rnn_type names
Bidirectional(strategy) == strategy \in {"bilstm", "bigru"}
CellType(strategy) == IF strategy \in {"lstm", "bilstm"} THEN "lstm" ELSE "gru"

\* C2: RNNEmbedding.forward returns the pair (hidden states at every time
\* step, hidden state at the last time step) for every supported
\* configuration: for each rnn_type in {lstm, gru} and each bidirectional in
\* {False, True}, a call with a valid (x, x_len) completes without raising
\* and returns both tensors, one row per input row.
C2_ForwardReturnsPair ==
    rnn_fwd.called =>
        /\ rnn_fwd.res.status = "ok"
        /\ Len(rnn_fwd.res.obj) = 2
        /\ Len(rnn_fwd.res.obj[1]) = Len(rnn_fwd.x_len)
        /\ Len(rnn_fwd.res.obj[2]) = Len(rnn_fwd.x_len)

\* C6: RNNEmbedding construction fails with a RuntimeError if and only if
\* rnn_type is not lstm or gru, or bidirectional is set and hidden_size is
\* odd; in every other case it succeeds with num_directions = 2 if
\* bidirectional else 1 and a per-direction hidden size of hidden_size // 2
\* if bidirectional else hidden_size.
C6_InitContract ==
    rnn.status # "not_called" =>
        LET rejected == \/ rnn_call.rnn_type \notin {"lstm", "gru"}
                        \/ (rnn_call.bidirectional /\ rnn_call.hidden_size % 2 = 1)
        IN  /\ rejected <=> (rnn.status = "raised" /\ rnn.exc = "RuntimeError")
            /\ ~rejected =>
                /\ rnn.status = "ok"
                /\ rnn.obj.rnn_type = rnn_call.rnn_type
                /\ rnn.obj.num_directions = (IF rnn_call.bidirectional THEN 2 ELSE 1)
                /\ rnn.obj.hidden_size = (IF rnn_call.bidirectional
                                           THEN rnn_call.hidden_size \div 2
                                           ELSE rnn_call.hidden_size)

\* C6 witness: a bidirectional construction with an even hidden_size above 2
\* has succeeded and halved it
C6_Witness ==
    /\ rnn.status = "ok"
    /\ rnn_call.bidirectional
    /\ rnn_call.hidden_size = 4
    /\ rnn.obj.hidden_size = 2
    /\ rnn.obj.num_directions = 2

----------------------------------------------------------------------------
(* Claims about EmbeddingConstruction, checked under SpecEC *)

DocumentedNodeEdge == {"mean", "lstm", "gru", "bilstm", "bigru"}
DocumentedSeqInfo == {"none", "lstm", "gru", "bilstm", "bigru"}

\* the layer is the RNN the strategy names
IsRnnFor(layer, strategy) ==
    /\ layer.class = "RNNEmbedding"
    /\ layer.rnn_type = CellType(strategy)
    /\ layer.num_directions = (IF Bidirectional(strategy) THEN 2 ELSE 1)

NodeEdgeLayerMatches(layer, strategy) ==
    IF strategy = "mean" THEN layer = [class |-> "MeanEmbedding"]
    ELSE IsRnnFor(layer, strategy)

SeqInfoLayerMatches(layer, strategy) ==
    IF strategy = "none" THEN layer = None ELSE IsRnnFor(layer, strategy)

OddBidirectional(strategy, hidden_size) ==
    Bidirectional(strategy) /\ hidden_size % 2 = 1

RaisedWith(outcome, exc, msg) ==
    outcome.status = "raised" /\ outcome.exc = exc /\ outcome.msg = msg /\ outcome.obj = None

EvenMsg == "hidden_size is expected to be even in the bidirectional mode!"

\* C4, as claimed: construction accepts node_edge_emb_strategy exactly in
\* {mean, lstm, gru, bilstm, bigru}: for each of these five values (the
\* sequence strategy being 'none') a node/edge layer of the matching kind is
\* installed, and for any other value construction fails with a
\* RuntimeError 'Unknown node_edge_emb_strategy' and no object is produced.
C4_AsClaimed ==
    ec.status # "not_called" =>
        /\ (ec_call.node_edge_emb_strategy \in DocumentedNodeEdge
            /\ ec_call.seq_info_encode_strategy = "none") =>
                /\ ec.status = "ok"
                /\ NodeEdgeLayerMatches(ec.obj.node_edge_emb_layer,
                                        ec_call.node_edge_emb_strategy)
        /\ ec_call.node_edge_emb_strategy \notin DocumentedNodeEdge =>
                RaisedWith(ec, "RuntimeError", "Unknown node_edge_emb_strategy")

\* C4, amended: for each of the five values a node/edge layer of the
\* matching kind is installed unless the value is bidirectional (bilstm,
\* bigru) and hidden_size is odd, in which case construction fails with the
\* RuntimeError 'hidden_size is expected to be even in the bidirectional
\* mode!'; once the layer is installed construction can only fail on the
\* sequence strategy.  For any other value construction fails with a
\* RuntimeError 'Unknown node_edge_emb_strategy' and no object is produced.
C4_NodeEdgeStrategy ==
    ec.status # "not_called" =>
        LET node == ec_call.node_edge_emb_strategy
            seq == ec_call.seq_info_encode_strategy
            hidden == ec_call.hidden_size
        IN  /\ node \notin DocumentedNodeEdge =>
                RaisedWith(ec, "RuntimeError", "Unknown node_edge_emb_strategy")
            /\ (node \in DocumentedNodeEdge /\ OddBidirectional(node, hidden)) =>
                RaisedWith(ec, "RuntimeError", EvenMsg)
            /\ (node \in DocumentedNodeEdge /\ ~OddBidirectional(node, hidden)) =>
                /\ ec.status = "ok" =>
                    NodeEdgeLayerMatches(ec.obj.node_edge_emb_layer, node)
                /\ ec.status = "raised" =>
                    \/ seq \notin DocumentedSeqInfo
                    \/ OddBidirectional(seq, hidden)

\* C4 witness: a construction with a bidirectional node/edge strategy and
\* an even hidden_size has succeeded and installed a two-direction layer
C4_Witness ==
    /\ ec.status = "ok"
    /\ ec_call.node_edge_emb_strategy = "bigru"
    /\ ec_call.hidden_size = 2
    /\ ec.obj.node_edge_emb_layer.num_directions = 2

\* the embedding of one item after the word and node/edge layers, from the
\* item's words and size alone
W2V(words) == [l \in 1..Len(words) |-> [op |-> "w2v", w |-> words[l]]]

ItemEmb(strategy, words, size) ==
    IF strategy = "mean"
    THEN [op |-> "mean", sum |-> W2V(words), len |-> size]
    ELSE [op |-> CellType(strategy),
          fwd |-> SubSeq(W2V(words), 1, size),
          bwd |-> IF Bidirectional(strategy) THEN SubSeq(W2V(words), 1, size) ELSE <<>>]

FwdItemEmb(k) ==
    ItemEmb(ec_call.node_edge_emb_strategy, ec_fwd.input_tensor[k], ec_fwd.item_size[k])

UsesBert == ec_call.word_emb_type \in {StrArg("bert"), ListArg(<<"w2v", "bert">>)}

GraphOf(k, num_items) ==
    CHOOSE i \in 1..Len(num_items) :
        /\ SeqSum(SubSeq(num_items, 1, i - 1)) < k
        /\ k <= SeqSum(SubSeq(num_items, 1, i))

\* the result for item k: its node/edge embedding, or, with a sequence
\* layer, the layer's output at the item's position in its own graph, which
\* has read the embeddings of the items of that graph only
FwdItemResult(k) ==
    LET seq == ec_call.seq_info_encode_strategy
        i == GraphOf(k, ec_fwd.num_items)
        first == SeqSum(SubSeq(ec_fwd.num_items, 1, i - 1))
        n == ec_fwd.num_items[i]
        embs == [j \in 1..n |-> FwdItemEmb(first + j)]
    IN  IF seq = "none" THEN FwdItemEmb(k)
        ELSE [op |-> CellType(seq),
              fwd |-> SubSeq(embs, 1, k - first),
              bwd |-> IF Bidirectional(seq) THEN SubSeq(embs, k - first, n) ELSE <<>>]

RowsInItemOrder ==
    /\ Len(ec_fwd.out.res.obj) = Len(ec_fwd.input_tensor)
    /\ \A k \in 1..Len(ec_fwd.input_tensor) :
        /\ ec_fwd.out.res.obj[k] = FwdItemResult(k)
        /\ ec_fwd.out.res.obj[k] # Zeros

\* C1: EmbeddingConstruction.forward returns one embedding row per item, in
\* the input item order: for every num_items vector (each entry >= 1) with
\* sum(num_items) = N and every seq_info_encode_strategy (including 'none'),
\* the output has exactly N rows and output row k is the result for input
\* item k; no padding row appears in the output and no real row is dropped.
\* Stated for the w2v word embedding and the node/edge strategies other
\* than bigru.
C1_OneRowPerItemInOrder ==
    (ec_fwd.called /\ ~UsesBert /\ ec_call.node_edge_emb_strategy # "bigru") =>
        /\ ec_fwd.out.res.status = "ok"
        /\ RowsInItemOrder

\* Whenever forward returns, its rows are the items' results in item order:
\* unbatching, padding, sorting, unsorting and truncation lose, add and move
\* nothing.
ForwardRowsWhenReturned ==
    (ec_fwd.called /\ ec_fwd.out.res.status = "ok") => RowsInItemOrder

\* forward raises exactly when a bert word layer or a bidirectional GRU
\* layer is involved
ForwardRaisesOnlyOnBertOrBigru ==
    ec_fwd.called =>
        (ec_fwd.out.res.status = "raised" <=>
            \/ UsesBert
            \/ ec_call.node_edge_emb_strategy = "bigru"
            \/ ec_call.seq_info_encode_strategy = "bigru")

\* C3: word_emb_type may be 'w2v', 'bert', or a list containing both:
\* EmbeddingConstruction creates one word-embedding layer per requested
\* type, and forward computes the item embeddings from the concatenation of
\* every layer's output applied to input_tensor, succeeding for each of
\* these three choices.  Stated for the strategies other than bigru.
C3_WordEmbTypes ==
    /\ ec.status = "ok" =>
        Len(ec.obj.word_emb_layers) =
            (IF ec_call.word_emb_type.isstr THEN 1 ELSE Len(ec_call.word_emb_type.list))
    /\ (ec_fwd.called /\ ec_call.node_edge_emb_strategy # "bigru"
        /\ ec_call.seq_info_encode_strategy # "bigru") =>
            ec_fwd.out.res.status = "ok"

----------------------------------------------------------------------------
(* Claim about ConllDataset.build_topology, checked under SpecConll *)

\* C7: ConllDataset.build_topology builds a graph topology for each item in
\* the dataset: once the script that calls it has ended, the call has
\* returned, every item of data_items has its graph attribute bound, and
\* the same data_items collection has been returned.
C7_BuildTopologyBindsGraphs ==
    conll # "not_imported" =>
        /\ conll_run.res.status = "ok"
        /\ conll_run.res.obj = data_items
        /\ \A k \in 1..Len(data_items) : data_items[k].graph # "unbound"

====
